---------------------------- MODULE Spec2Model ----------------------------
(***************************************************************************)
(* A model of restruct_pdf.py: the numbering successor predicate           *)
(* (is_next_heading), the section accumulator (extract_hierarchy_checked)  *)
(* and the hierarchy builder (nest_sections_by_hierarchy).                 *)
(*                                                                         *)
(* Strings are sequences of one-character strings, so that splitting,      *)
(* integer parsing, pattern matching, whitespace normalisation and         *)
(* substring tests are computed character by character.  A Python value    *)
(* that may be None is a sequence of length 0 (None) or 1 (the value).     *)
(***************************************************************************)
EXTENDS Integers, Sequences, FiniteSets, TLC

VARIABLES
    \* ---- extract_hierarchy_checked ----
    cfg,              \* the keyword arguments and the TOC of the document
    doc,              \* the blocks read from the document so far, <<page_num, block>>
    page_num,         \* loop variable of the page loop (0-based)
    line_idx,         \* loop variable of the line loop of the current block
    span_idx,         \* loop variable of the span loop of the current line
    pc,               \* position: "blocks", "spans", "done", "raised", "idle"
    sections,         \* the output list
    current_section,  \* the open section, None or a section
    last_number,      \* the last accepted numbering, None or a string
    started,          \* the SUPPRESSED (FALSE) / ACTIVE (TRUE) gate
    \* ---- is_next_heading, called on its own ----
    prev,             \* argument prev: None or a numbering string
    current,          \* argument current: a numbering string
    answer,           \* None before the call, then <<[raised, value]>>
    \* ---- nest_sections_by_hierarchy ----
    flat,             \* argument sections: the flat list
    nidx,             \* number of sections of flat already placed
    stack,            \* the stack of open ancestors (indices into flat)
    root,             \* the list of roots (indices into nodes)
    nodes             \* nodes[i]: the node made of flat[i], with its 'children'

extractVars == <<cfg, doc, page_num, line_idx, span_idx, pc, sections,
                 current_section, last_number, started>>
succVars == <<prev, current, answer>>
nestVars == <<flat, nidx, stack, root, nodes>>
vars == <<extractVars, succVars, nestVars>>

None == <<>>
Some(x) == <<x>>

-----------------------------------------------------------------------------
(* Bounds of the model.                                                    *)

MaxLevel == 3       \* is_next_heading inputs: at most this many components
MaxNum == 3         \* is_next_heading inputs: components in 0..MaxNum
MaxSpans == 3       \* extraction: at most this many spans are read from the document
MaxPages == 2       \* extraction: the document has at most this many pages
MaxScenarioLines == 5   \* the end-to-end scenario: at most this many lines are read
MaxFlat == 5        \* nest_sections_by_hierarchy inputs: at most this many sections
MaxNestLevel == 3   \* nest_sections_by_hierarchy inputs: levels in 1..MaxNestLevel
MaxRegionBlocks == 2    \* the region filter: at most this many blocks are read
MaxComposeLines == 4    \* extraction then nesting: at most this many lines are read

-----------------------------------------------------------------------------
(* Characters and strings.                                                 *)

Digits == {"0", "1", "2", "3", "4", "5", "6", "7", "8", "9"}
Letters == {"A", "B", "I", "M", "N", "a", "b", "c", "d", "e", "g", "i", "k", "n", "o", "r", "t", "u", "x", "y"}
IsSpace(c) == c = " "

DigitVal(c) ==
    CASE c = "0" -> 0 [] c = "1" -> 1 [] c = "2" -> 2 [] c = "3" -> 3
      [] c = "4" -> 4 [] c = "5" -> 5 [] c = "6" -> 6 [] c = "7" -> 7
      [] c = "8" -> 8 [] c = "9" -> 9

DigitChar(d) ==
    CASE d = 0 -> "0" [] d = 1 -> "1" [] d = 2 -> "2" [] d = 3 -> "3"
      [] d = 4 -> "4" [] d = 5 -> "5" [] d = 6 -> "6" [] d = 7 -> "7"
      [] d = 8 -> "8" [] d = 9 -> "9"

\* s[a..b] as Python's s[a-1:b]; empty when b < a.
Slice(s, a, b) == IF b < a THEN <<>> ELSE SubSeq(s, a, b)

\* Python's "".join(parts).
RECURSIVE Concat(_)
Concat(parts) ==
    IF parts = <<>> THEN <<>> ELSE Head(parts) \o Concat(Tail(parts))

\* Python's s.split(sep) for a one-character separator: the pieces between
\* separators, empty pieces kept, always at least one piece.
RECURSIVE SplitAt(_, _, _)
SplitAt(s, sep, piece) ==
    IF s = <<>> THEN <<piece>>
    ELSE IF Head(s) = sep THEN <<piece>> \o SplitAt(Tail(s), sep, <<>>)
    ELSE SplitAt(Tail(s), sep, Append(piece, Head(s)))

Split(s, sep) == SplitAt(s, sep, <<>>)

\* x.strip(): x without its leading and trailing spaces.
RECURSIVE Strip(_)
Strip(x) ==
    IF x = <<>> THEN x
    ELSE IF IsSpace(Head(x)) THEN Strip(Tail(x))
    ELSE IF IsSpace(x[Len(x)]) THEN Strip(SubSeq(x, 1, Len(x) - 1))
    ELSE x

\* Python's int(x) on a piece of the model's alphabet (digits, letters,
\* spaces): after stripping the surrounding spaces, a non-empty run of
\* decimal digits has a value, anything else raises ValueError.
IsInt(x) == Strip(x) # <<>> /\ \A i \in 1..Len(Strip(x)) : Strip(x)[i] \in Digits

RECURSIVE DigitsValue(_)
DigitsValue(x) ==
    IF x = <<>> THEN 0
    ELSE 10 * DigitsValue(SubSeq(x, 1, Len(x) - 1)) + DigitVal(x[Len(x)])

IntOf(x) == DigitsValue(Strip(x))

\* str(n) for n >= 0.
RECURSIVE StrOfNat(_)
StrOfNat(n) ==
    IF n < 10 THEN <<DigitChar(n)>>
    ELSE Append(StrOfNat(n \div 10), DigitChar(n % 10))

\* ".".join(str(n) for n in nums), for a non-empty nums.
RECURSIVE StrOfNums(_)
StrOfNums(nums) ==
    IF Len(nums) = 1 THEN StrOfNat(nums[1])
    ELSE StrOfNat(nums[1]) \o <<".">> \o StrOfNums(Tail(nums))

-----------------------------------------------------------------------------
(* parse_numbering and is_next_heading.                                    *)

\* parse_numbering(num_str): [raised |-> TRUE] when some int(x) raises
\* ValueError, else the list of integers.
parse_numbering(num_str) ==
    LET pieces == Split(num_str, ".") IN
    IF \A i \in 1..Len(pieces) : IsInt(pieces[i])
    THEN [raised |-> FALSE, nums |-> [i \in 1..Len(pieces) |-> IntOf(pieces[i])]]
    ELSE [raised |-> TRUE, nums |-> <<>>]

\* NextOfParsed with the equal-length branch as the docstring words it
\* (1.1 -> 1.3 accepted): any larger last component.
NextOfParsed_SiblingSkip(prev_nums, curr_nums) ==
    LET lp == Len(prev_nums)
        lc == Len(curr_nums)
    IN  IF lp = lc
        THEN /\ Slice(curr_nums, 1, lc - 1) = Slice(prev_nums, 1, lp - 1)
             /\ curr_nums[lc] > prev_nums[lp]
        ELSE IF lc = 1 /\ curr_nums[1] = prev_nums[1] + 1 THEN TRUE
        ELSE IF lc = lp + 1 /\ Slice(curr_nums, 1, lc - 1) = prev_nums THEN TRUE
        ELSE IF lc < lp
                /\ Slice(curr_nums, 1, lc - 1) = Slice(prev_nums, 1, lc - 1)
                /\ curr_nums[lc] = prev_nums[lc] + 1 THEN TRUE
        ELSE FALSE

\* NextOfParsed whose descent branch accepts any deeper numbering that
\* extends prev (1 -> 1.1.1).
NextOfParsed_AnyDescent(prev_nums, curr_nums) ==
    LET lp == Len(prev_nums)
        lc == Len(curr_nums)
    IN  IF lp = lc
        THEN /\ Slice(curr_nums, 1, lc - 1) = Slice(prev_nums, 1, lp - 1)
             /\ curr_nums[lc] = prev_nums[lp] + 1
        ELSE IF lc = 1 /\ curr_nums[1] = prev_nums[1] + 1 THEN TRUE
        ELSE IF lc > lp /\ Slice(curr_nums, 1, lp) = prev_nums THEN TRUE
        ELSE IF lc < lp
                /\ Slice(curr_nums, 1, lc - 1) = Slice(prev_nums, 1, lc - 1)
                /\ curr_nums[lc] = prev_nums[lc] + 1 THEN TRUE
        ELSE FALSE

\* The branches of is_next_heading once both numberings are parsed.
NextOfParsed(prev_nums, curr_nums) ==
    LET lp == Len(prev_nums)
        lc == Len(curr_nums)
    IN  IF lp = lc
        THEN /\ Slice(curr_nums, 1, lc - 1) = Slice(prev_nums, 1, lp - 1)
             /\ curr_nums[lc] = prev_nums[lp] + 1
        ELSE IF lc = 1 /\ curr_nums[1] = prev_nums[1] + 1 THEN TRUE
        ELSE IF lc = lp + 1 /\ Slice(curr_nums, 1, lc - 1) = prev_nums THEN TRUE
        ELSE IF lc < lp
                /\ Slice(curr_nums, 1, lc - 1) = Slice(prev_nums, 1, lc - 1)
                /\ curr_nums[lc] = prev_nums[lc] + 1 THEN TRUE
        ELSE FALSE

\* is_next_heading(prev, current): prev is None or a string, current a
\* string.  [raised, value]: raised when parse_numbering raises.
is_next_heading(p, c) ==
    IF p = None \/ p[1] = <<>> THEN [raised |-> FALSE, value |-> TRUE]
    ELSE LET prev_nums == parse_numbering(p[1])
             curr_nums == parse_numbering(c)
         IN  IF prev_nums.raised \/ curr_nums.raised
             THEN [raised |-> TRUE, value |-> FALSE]
             ELSE [raised |-> FALSE,
                   value |-> NextOfParsed(prev_nums.nums, curr_nums.nums)]

-----------------------------------------------------------------------------
(* The text operations of extract_hierarchy_checked.                       *)

\* The heading patterns of the model: the default heading_regex,
\*   ^\s*(\d+(?:\.\d+)*)(?:\s+|\.?\s+)?(.*)$
\* and "word", the same pattern with \w for \d (a configured pattern whose
\* first group also captures letters).  TokenChars is the class of group 1.
TokenChars(heading_regex) ==
    IF heading_regex = "default" THEN Digits ELSE Digits \cup Letters

\* The end of the longest run of characters of class at text[from..], from - 1
\* if there is none.
RECURSIVE RunEnd(_, _, _)
RunEnd(text, from, class) ==
    IF from <= Len(text) /\ text[from] \in class
    THEN RunEnd(text, from + 1, class) ELSE from - 1

\* The end of the greedy (?:\.token+)* that follows a token run ending at e.
RECURSIVE DottedEnd(_, _, _)
DottedEnd(text, e, class) ==
    IF e + 2 <= Len(text) /\ text[e + 1] = "." /\ text[e + 2] \in class
    THEN DottedEnd(text, RunEnd(text, e + 2, class), class) ELSE e

\* re.match(heading_regex, text) on a text without line breaks: greedy, and
\* never backtracking since (.*)$ takes any rest.  [matched, num_str, title]:
\* group 1 and group 2.
HeadingMatch(heading_regex, text) ==
    LET class == TokenChars(heading_regex)
        ws == RunEnd(text, 1, {" "})                  \* ^\s*
        tok == RunEnd(text, ws + 1, class)             \* \d+
    IN  IF tok <= ws THEN [matched |-> FALSE, num_str |-> <<>>, title |-> <<>>]
        ELSE LET e == DottedEnd(text, tok, class)      \* (?:\.\d+)*
                 sp == RunEnd(text, e + 1, {" "})
                 dsp == IF e + 1 <= Len(text) /\ text[e + 1] = "."
                        THEN RunEnd(text, e + 2, {" "}) ELSE e
                 \* (?:\s+|\.?\s+)? : spaces, else a dot and spaces, else nothing
                 sepEnd == IF sp > e THEN sp
                           ELSE IF dsp > e + 1 THEN dsp ELSE e
             IN  [matched |-> TRUE,
                  num_str |-> SubSeq(text, ws + 1, e),
                  title |-> Slice(text, sepEnd + 1, Len(text))]

\* title.split(): the maximal runs of non-space characters.
RECURSIVE Words(_, _)
Words(s, word) ==
    IF s = <<>> THEN (IF word = <<>> THEN <<>> ELSE <<word>>)
    ELSE IF IsSpace(Head(s))
         THEN (IF word = <<>> THEN <<>> ELSE <<word>>) \o Words(Tail(s), <<>>)
         ELSE Words(Tail(s), Append(word, Head(s)))

\* " ".join(words)
RECURSIVE JoinSpace(_)
JoinSpace(words) ==
    IF words = <<>> THEN <<>>
    ELSE IF Len(words) = 1 THEN words[1]
    ELSE words[1] \o <<" ">> \o JoinSpace(Tail(words))

\* " ".join(title.split())
NormalizeTitle(title) == JoinSpace(Words(title, <<>>))

\* Python's sub in s, for strings.
Contains(sub, s) ==
    \E i \in 0..(Len(s) - Len(sub)) : Slice(s, i + 1, i + Len(sub)) = sub

\* InToc with the membership test dropped.
InToc_Always(num_str, titles) == TRUE

\* any(num_str in item for item in titles)
InToc(num_str, titles) == \E k \in 1..Len(titles) : Contains(num_str, titles[k])

\* The non-empty texts of a list of spans, in order.
RECURSIVE NonEmptyTexts(_)
NonEmptyTexts(spans) ==
    IF spans = <<>> THEN <<>>
    ELSE (IF Head(spans).text # <<>> THEN <<Head(spans).text>> ELSE <<>>)
         \o NonEmptyTexts(Tail(spans))

\* The title stitching: title and text after the same-line pass and the
\* next-line pass.  lines is the block's lines, line_idx and span_idx are
\* 0-based as in the code, title is group 2 of the match.
Stitch(lines, li, si, title, text) ==
    LET spans == lines[li + 1]
        \* Concatenate all following spans in the same line for the title
        parts1 == (IF title # <<>> THEN <<title>> ELSE <<>>)
                  \o NonEmptyTexts(Slice(spans, si + 2, Len(spans)))
        same == si + 1 < Len(spans) /\ parts1 # <<>>
        title1 == IF same THEN Concat(parts1) ELSE title
        text1 == IF same THEN text \o Concat(parts1) ELSE text
        \* If still missing, try next line
        parts2 == IF li + 1 < Len(lines) THEN NonEmptyTexts(lines[li + 2]) ELSE <<>>
        next == Len(title1) < 2 /\ li + 1 < Len(lines) /\ parts2 # <<>>
    IN  [title |-> IF next THEN title1 \o Concat(parts2) ELSE title1,
         text |-> IF next THEN text1 \o Concat(parts2) ELSE text1]

\* is_link: any(fitz.Rect(link["from"]).intersects(span_bbox) for link in
\* links).  The geometry is the document layer's; a span carries the outcome.
is_link_Never(span) == FALSE

is_link(span) == span.link

\* GateOpens that lets any heading open the gate.
GateOpens_Any(num_str, start_header_number) == TRUE

\* num_str == start_header_number
GateOpens(num_str, start_header_number) == num_str = start_header_number[1]

\* NewSection with the 0-based page index as the page.
NewSection_ZeroBasedPage(title, num_str, page) ==
    [title |-> NormalizeTitle(title), number |-> num_str,
     level |-> Len(Split(num_str, ".")), page |-> page, content |-> <<>>]

\* The section dict opened for an accepted heading; page is page_num.
NewSection(title, num_str, page) ==
    [title |-> NormalizeTitle(title), number |-> num_str,
     level |-> Len(Split(num_str, ".")), page |-> page + 1, content |-> <<>>]

\* current_section["content"] += text, when there is an open section.
AddContent(cur, text) ==
    IF cur = None THEN cur ELSE Some([cur[1] EXCEPT !.content = @ \o text])

-----------------------------------------------------------------------------
(* The texts of the fragments of the model. *)

T_Intro == <<"1", " ", "I", "n", "t", "r", "o", "d", "u", "c", "t", "i", "o", "n">>
T_IntroBody == <<"I", "n", "t", "r", "o", " ", "b", "o", "d", "y", " ", "t", "e", "x", "t", ".">>
T_Background == <<"1", ".", "1", " ", "B", "a", "c", "k", "g", "r", "o", "u", "n", "d">>
T_MoreBody == <<"M", "o", "r", "e", " ", "b", "o", "d", "y", ".">>
T_Next == <<"2", " ", "N", "e", "x", "t">>
T_Introduction == <<"I", "n", "t", "r", "o", "d", "u", "c", "t", "i", "o", "n">>
T_BackgroundTitle == <<"B", "a", "c", "k", "g", "r", "o", "u", "n", "d">>
T_NextTitle == <<"N", "e", "x", "t">>
T_1Ab == <<"1", " ", "A", "b">>
T_11 == <<"1", ".", "1">>
T_2B == <<"2", " ", "B">>
T_xy == <<"x", "y">>
T_1 == <<"1">>
T_111 == <<"1", ".", "1", ".", "1">>
T_112 == <<"1", ".", "1", ".", "2">>
T_12 == <<"1", ".", "2">>
T_2 == <<"2">>
T_Toc11 == <<"1", ".", "1", " ", "B", "c">>

-----------------------------------------------------------------------------
(* Values of the variables of the parts a specification does not run.      *)

IdleExtract ==
    /\ cfg = None /\ doc = <<>> /\ page_num = 0 /\ line_idx = 0 /\ span_idx = 0
    /\ pc = "idle" /\ sections = <<>> /\ current_section = None
    /\ last_number = None /\ started = FALSE

IdleSucc == prev = None /\ current = <<>> /\ answer = None

IdleNest ==
    /\ flat = <<>> /\ nidx = 0 /\ stack = <<>> /\ root = <<>> /\ nodes = <<>>

-----------------------------------------------------------------------------
(* SpecSucc: is_next_heading applied to every pair of numberings in bounds. *)

\* The sequences of 1..MaxLevel integers in 0..MaxNum.
Numberings == UNION {[1..n -> 0..MaxNum] : n \in 1..MaxLevel}
NumberingStrings == {StrOfNums(n) : n \in Numberings}

InitSucc ==
    /\ prev \in {None} \cup {Some(s) : s \in NumberingStrings}
    /\ current \in NumberingStrings
    /\ answer = None
    /\ IdleExtract /\ IdleNest

CallIsNextHeading ==
    /\ answer = None
    /\ answer' = Some(is_next_heading(prev, current))
    /\ UNCHANGED <<prev, current, extractVars, nestVars>>

NextSucc == CallIsNextHeading

SpecSucc == InitSucc /\ [][NextSucc]_vars

-----------------------------------------------------------------------------
(* C1 *)

\* The five cases of the claim, on the integer sequences P (prev) and C (curr).
C1_SiblingIncrement(P, C) ==
    /\ Len(C) = Len(P)
    /\ Slice(C, 1, Len(C) - 1) = Slice(P, 1, Len(P) - 1)
    /\ C[Len(C)] = P[Len(P)] + 1
C1_BackToTop(P, C) == Len(C) = 1 /\ C[1] = P[1] + 1
C1_Descend(P, C) == Len(C) = Len(P) + 1 /\ Slice(C, 1, Len(C) - 1) = P
C1_Ascend(P, C) ==
    /\ Len(C) < Len(P)
    /\ Slice(C, 1, Len(C) - 1) = Slice(P, 1, Len(C) - 1)
    /\ C[Len(C)] = P[Len(C)] + 1
C1_Expected ==
    \/ prev = None
    \/ LET P == parse_numbering(prev[1]).nums
           C == parse_numbering(current).nums
       IN  \/ C1_SiblingIncrement(P, C)
           \/ C1_BackToTop(P, C)
           \/ C1_Descend(P, C)
           \/ C1_Ascend(P, C)

-----------------------------------------------------------------------------
(* extract_hierarchy_checked.                                              *)
(*                                                                         *)
(* The document is read as the code reads it, page by page and block by    *)
(* block: doc holds the blocks read so far and the page of each, its last  *)
(* element is the block being scanned.  A block is                         *)
(*   [type, bbox_y0, bbox_y1, lines], lines a list of lines, a line a list  *)
(* of spans [text, size, link].  cfg holds the keyword arguments and        *)
(* titles, the titles of doc.get_toc().                                     *)

PageHeight == 100   \* page.rect.height

CurBlock == doc[Len(doc)].block
CurLines == CurBlock.lines
CurSpans == CurLines[line_idx + 1]

\* The spans read so far.
RECURSIVE SpansOfLines(_)
SpansOfLines(lines) ==
    IF lines = <<>> THEN 0 ELSE Len(Head(lines)) + SpansOfLines(Tail(lines))
RECURSIVE SpansRead(_)
SpansRead(d) ==
    IF d = <<>> THEN 0 ELSE SpansOfLines(Head(d).block.lines) + SpansRead(Tail(d))
RECURSIVE LinesRead(_)
LinesRead(d) ==
    IF d = <<>> THEN 0 ELSE Len(Head(d).block.lines) + LinesRead(Tail(d))

\* " ".join(span["text"] for line in block["lines"] for span in line["spans"])
RECURSIVE JoinSpaceAll(_)
JoinSpaceAll(texts) ==
    IF texts = <<>> THEN <<>>
    ELSE IF Len(texts) = 1 THEN texts[1]
    ELSE texts[1] \o <<" ">> \o JoinSpaceAll(Tail(texts))
RECURSIVE TextsOfLines(_)
TextsOfLines(lines) ==
    IF lines = <<>> THEN <<>>
    ELSE [k \in 1..Len(Head(lines)) |-> Head(lines)[k].text] \o TextsOfLines(Tail(lines))

\* BlockSkipped with the header band tested on the bottom of the block
\* (bbox[3]) instead of its top.
BlockSkipped_HeaderByBottom(c, block) ==
    \/ block.type # 0
    \/ /\ c.remove_header_footer_if_contains # None
       /\ c.remove_header_footer_if_contains[1] # <<>>
       /\ \E k \in 1..Len(c.remove_header_footer_if_contains[1]) :
             Contains(c.remove_header_footer_if_contains[1][k],
                      JoinSpaceAll(TextsOfLines(block.lines)))
    \/ c.header_height # None /\ block.bbox_y1 < c.header_height[1]
    \/ c.footer_height # None /\ block.bbox_y1 > PageHeight - c.footer_height[1]

\* The block filter: not a text block, a removal pattern found in the block's
\* text (the patterns of the model are literal strings), or the block in the
\* header or footer band.
BlockSkipped(c, block) ==
    \/ block.type # 0
    \/ /\ c.remove_header_footer_if_contains # None
       /\ c.remove_header_footer_if_contains[1] # <<>>
       /\ \E k \in 1..Len(c.remove_header_footer_if_contains[1]) :
             Contains(c.remove_header_footer_if_contains[1][k],
                      JoinSpaceAll(TextsOfLines(block.lines)))
    \/ c.header_height # None /\ block.bbox_y0 < c.header_height[1]
    \/ c.footer_height # None /\ block.bbox_y1 > PageHeight - c.footer_height[1]

\* HeadingStep whose rejection branch also writes into the section sealed
\* last, as if the open section were still the dict appended to the list.
HeadingStep_TouchesSealed(c, st, num_str, page, secs, cur, last) ==
    LET called == c.titles = <<>> \/ InToc(num_str, c.titles)
        nh == is_next_heading(last, num_str)
    IN  IF called /\ nh.raised
        THEN [raised |-> TRUE, sections |-> secs, current_section |-> cur,
              last_number |-> last, started |-> TRUE]
        ELSE IF called /\ nh.value
        THEN [raised |-> FALSE, sections |-> secs \o cur,
              current_section |-> Some(NewSection(st.title, num_str, page)),
              last_number |-> Some(num_str), started |-> TRUE]
        ELSE [raised |-> FALSE,
              sections |-> IF secs = <<>> THEN secs
                           ELSE [secs EXCEPT ![Len(secs)].content = @ \o st.text],
              current_section |-> AddContent(cur, st.text),
              last_number |-> last, started |-> TRUE]

\* HeadingStep that opens the new section without recording its number as
\* the last accepted numbering.
HeadingStep_StaleLast(c, st, num_str, page, secs, cur, last) ==
    LET called == c.titles = <<>> \/ InToc(num_str, c.titles)
        nh == is_next_heading(last, num_str)
    IN  IF called /\ nh.raised
        THEN [raised |-> TRUE, sections |-> secs, current_section |-> cur,
              last_number |-> last, started |-> TRUE]
        ELSE IF called /\ nh.value
        THEN [raised |-> FALSE, sections |-> secs \o cur,
              current_section |-> Some(NewSection(st.title, num_str, page)),
              last_number |-> last, started |-> TRUE]
        ELSE [raised |-> FALSE, sections |-> secs,
              current_section |-> AddContent(cur, st.text),
              last_number |-> last, started |-> TRUE]

\* The heading branch once the gate is open: the TOC test and
\* is_next_heading (not called when the TOC test fails), then the new
\* section or the text folded into the open one.
HeadingStep(c, st, num_str, page, secs, cur, last) ==
    LET called == c.titles = <<>> \/ InToc(num_str, c.titles)
        nh == is_next_heading(last, num_str)
    IN  IF called /\ nh.raised
        THEN [raised |-> TRUE, sections |-> secs, current_section |-> cur,
              last_number |-> last, started |-> TRUE]
        ELSE IF called /\ nh.value
        THEN [raised |-> FALSE, sections |-> secs \o cur,
              current_section |-> Some(NewSection(st.title, num_str, page)),
              last_number |-> Some(num_str), started |-> TRUE]
        ELSE [raised |-> FALSE, sections |-> secs,
              current_section |-> AddContent(cur, st.text),
              last_number |-> last, started |-> TRUE]

\* SpanStep with a linked heading match folded into the open section.
SpanStep_LinkFolded(c, lines, li, si, page, secs, cur, last, st) ==
    LET span == lines[li + 1][si + 1]
        text == span.text
        m == HeadingMatch(c.heading_regex, text)
        same == [raised |-> FALSE, sections |-> secs, current_section |-> cur,
                 last_number |-> last, started |-> st]
    IN  IF text = <<>> THEN same
        ELSE IF m.matched /\ (c.min_font_size = None \/ span.size >= c.min_font_size[1])
        THEN IF is_link(span) THEN [same EXCEPT !.current_section = AddContent(cur, text)]
             ELSE IF ~st /\ ~GateOpens(m.num_str, c.start_header_number) THEN same
             ELSE HeadingStep(c, Stitch(lines, li, si, m.title, text), m.num_str,
                              page, secs, cur, last)
        ELSE IF cur # None /\ st THEN [same EXCEPT !.current_section = AddContent(cur, text)]
        ELSE same

\* SpanStep with the gate check made before the link check: a linked match
\* of the start number opens the gate before it is skipped.
SpanStep_GateBeforeLink(c, lines, li, si, page, secs, cur, last, st) ==
    LET span == lines[li + 1][si + 1]
        text == span.text
        m == HeadingMatch(c.heading_regex, text)
        same == [raised |-> FALSE, sections |-> secs, current_section |-> cur,
                 last_number |-> last, started |-> st]
    IN  IF text = <<>> THEN same
        ELSE IF m.matched /\ (c.min_font_size = None \/ span.size >= c.min_font_size[1])
        THEN IF ~st /\ ~GateOpens(m.num_str, c.start_header_number) THEN same
             ELSE IF is_link(span) THEN [same EXCEPT !.started = TRUE]
             ELSE HeadingStep(c, Stitch(lines, li, si, m.title, text), m.num_str,
                              page, secs, cur, last)
        ELSE IF cur # None /\ st THEN [same EXCEPT !.current_section = AddContent(cur, text)]
        ELSE same

\* The body of the span loop for the span at (li, si) of lines.
SpanStep(c, lines, li, si, page, secs, cur, last, st) ==
    LET span == lines[li + 1][si + 1]
        text == span.text
        m == HeadingMatch(c.heading_regex, text)
        same == [raised |-> FALSE, sections |-> secs, current_section |-> cur,
                 last_number |-> last, started |-> st]
    IN  IF text = <<>> THEN same
        ELSE IF m.matched /\ (c.min_font_size = None \/ span.size >= c.min_font_size[1])
        THEN IF is_link(span) THEN same
             ELSE IF ~st /\ ~GateOpens(m.num_str, c.start_header_number) THEN same
             ELSE HeadingStep(c, Stitch(lines, li, si, m.title, text), m.num_str,
                              page, secs, cur, last)
        ELSE IF cur # None /\ st THEN [same EXCEPT !.current_section = AddContent(cur, text)]
        ELSE same

\* page_num < page_end, where page_end is end_page, or past the last page
\* read when end_page is None.
BeforePageEnd(c, p) == IF c.end_page = None THEN TRUE ELSE p < c.end_page[1]

\* Reading the next block of the current page: skipped by the filter, or its
\* line loop entered.
ReadBlock(block) ==
    /\ pc = "blocks"
    /\ BeforePageEnd(cfg, page_num)
    /\ doc' = Append(doc, [page |-> page_num, block |-> block])
    /\ IF BlockSkipped(cfg, block) \/ block.lines = <<>>
       THEN UNCHANGED <<pc, line_idx, span_idx>>
       ELSE /\ pc' = "spans"
            /\ line_idx' = 0
            /\ span_idx' = 0
    /\ UNCHANGED <<cfg, page_num, sections, current_section, last_number, started,
                   succVars, nestVars>>

\* The page loop moves to the next page.
NextPage ==
    /\ pc = "blocks"
    /\ page_num + 1 < MaxPages
    /\ BeforePageEnd(cfg, page_num + 1)
    /\ page_num' = page_num + 1
    /\ UNCHANGED <<cfg, doc, line_idx, span_idx, pc, sections, current_section,
                   last_number, started, succVars, nestVars>>

\* ProcessSpan that, after opening a section, resumes the scan after the
\* last span of the line: the fragments stitched into the title are consumed.
ProcessSpan_ConsumesStitched ==
    /\ pc = "spans"
    /\ span_idx < Len(CurSpans)
    /\ LET o == SpanStep(cfg, CurLines, line_idx, span_idx, page_num, sections,
                         current_section, last_number, started)
           opened == ~o.raised /\ o.last_number # last_number
       IN  /\ sections' = o.sections
           /\ current_section' = o.current_section
           /\ last_number' = o.last_number
           /\ started' = o.started
           /\ pc' = IF o.raised THEN "raised" ELSE pc
           /\ span_idx' = IF o.raised THEN span_idx
                          ELSE IF opened THEN Len(CurSpans) ELSE span_idx + 1
    /\ UNCHANGED <<cfg, doc, page_num, line_idx, succVars, nestVars>>

\* One iteration of the span loop; an exception of is_next_heading leaves
\* the function.
ProcessSpan ==
    /\ pc = "spans"
    /\ span_idx < Len(CurSpans)
    /\ LET o == SpanStep(cfg, CurLines, line_idx, span_idx, page_num, sections,
                         current_section, last_number, started)
       IN  /\ sections' = o.sections
           /\ current_section' = o.current_section
           /\ last_number' = o.last_number
           /\ started' = o.started
           /\ pc' = IF o.raised THEN "raised" ELSE pc
           /\ span_idx' = IF o.raised THEN span_idx ELSE span_idx + 1
    /\ UNCHANGED <<cfg, doc, page_num, line_idx, succVars, nestVars>>

\* The end of the span loop of a line: the newline, and the next line or the
\* end of the block.
EndLine ==
    /\ pc = "spans"
    /\ span_idx = Len(CurSpans)
    /\ current_section' = AddContent(current_section, <<"\n">>)
    /\ line_idx' = line_idx + 1
    /\ span_idx' = 0
    /\ pc' = IF line_idx + 1 < Len(CurLines) THEN "spans" ELSE "blocks"
    /\ UNCHANGED <<cfg, doc, page_num, sections, last_number, started,
                   succVars, nestVars>>

\* Finish that returns the list without appending the open section.
Finish_DropsOpen ==
    /\ pc = "blocks"
    /\ IF cfg.end_page = None THEN TRUE ELSE page_num + 1 >= cfg.end_page[1]
    /\ pc' = "done"
    /\ UNCHANGED <<cfg, doc, page_num, line_idx, span_idx, sections, current_section,
                   last_number, started, succVars, nestVars>>

\* The end of the page loop: the open section is appended and the list
\* returned.
Finish ==
    /\ pc = "blocks"
    /\ IF cfg.end_page = None THEN TRUE ELSE page_num + 1 >= cfg.end_page[1]
    /\ sections' = sections \o current_section
    /\ pc' = "done"
    /\ UNCHANGED <<cfg, doc, page_num, line_idx, span_idx, current_section,
                   last_number, started, succVars, nestVars>>

\* The state after the first lines of extract_hierarchy_checked, for the
\* arguments and TOC c.
InitExtract(c) ==
    /\ cfg = c
    /\ doc = <<>>
    /\ page_num = (IF c.start_page # None THEN c.start_page[1] - 1 ELSE 0)
    /\ line_idx = 0 /\ span_idx = 0
    /\ pc = "blocks"
    /\ sections = <<>>
    /\ current_section = None
    /\ last_number = None
    /\ started = (c.start_header_number = None)
    /\ IdleSucc /\ IdleNest

-----------------------------------------------------------------------------
(* Spec: the extraction over every document of at most MaxSpans spans made  *)
(* of the spans below, for each of the configurations below.               *)

Span(text, size, link) == [text |-> text, size |-> size, link |-> link]

MainSpans ==
    { Span(T_1Ab, 14, FALSE),    \* heading 1, title "Ab"
      Span(T_11, 14, FALSE),     \* heading 1.1, no title
      Span(T_11, 14, TRUE),      \* the same inside a hyperlink
      Span(T_2B, 10, FALSE),     \* heading 2, a title of one character, body font
      Span(T_xy, 10, FALSE),     \* text
      Span(<<>>, 10, FALSE) }    \* an empty span

\* The lists of lines of n spans in all, each line of at least one span.
RECURSIVE LineLists(_, _)
LineLists(spanSet, n) ==
    IF n = 0 THEN {<<>>}
    ELSE UNION { { <<first>> \o rest : first \in [1..k -> spanSet],
                                     rest \in LineLists(spanSet, n - k) }
                 : k \in 1..n }

TextBlock(lines) == [type |-> 0, bbox_y0 |-> 40, bbox_y1 |-> 60, lines |-> lines]

\* MainBlocks[n]: the text blocks of n spans.
MainBlocks == [n \in 1..MaxSpans |-> {TextBlock(l) : l \in LineLists(MainSpans, n)}]

Config(regex, minfont, start, titles) ==
    [heading_regex |-> regex, min_font_size |-> minfont,
     remove_header_footer_if_contains |-> None, header_height |-> None,
     footer_height |-> None, start_page |-> None, end_page |-> None,
     start_header_number |-> start, titles |-> titles]

MainToc == <<T_1Ab, T_Toc11>>

MainConfigs ==
    { Config("default", None, None, <<>>),
      Config("default", Some(12), None, <<>>),
      Config("default", None, Some(T_11), <<>>),
      Config("default", None, None, MainToc),
      Config("default", Some(12), Some(T_11), MainToc),
      Config("word", None, None, <<>>) }

Init == \E c \in MainConfigs : InitExtract(c)

Next ==
    \/ /\ pc = "blocks"
       /\ \E n \in 1..(MaxSpans - SpansRead(doc)) : \E b \in MainBlocks[n] : ReadBlock(b)
    \/ NextPage
    \/ ProcessSpan
    \/ EndLine
    \/ Finish

Spec == Init /\ [][Next]_vars

-----------------------------------------------------------------------------
(* SpecScenario: the extraction with the default arguments and no TOC over  *)
(* every document of at most MaxScenarioLines one-line blocks, each line    *)
(* one of the five fragments of the end-to-end scenario.                    *)

ScenarioSpans ==
    { Span(T_Intro, 14, FALSE), Span(T_IntroBody, 10, FALSE),
      Span(T_Background, 12, FALSE), Span(T_MoreBody, 10, FALSE),
      Span(T_Next, 14, FALSE) }

ScenarioBlocks == {TextBlock(<<<<sp>>>>) : sp \in ScenarioSpans}

InitScenario == InitExtract(Config("default", None, None, <<>>))

NextScenario ==
    \/ /\ pc = "blocks"
       /\ LinesRead(doc) < MaxScenarioLines
       /\ \E b \in ScenarioBlocks : ReadBlock(b)
    \/ NextPage
    \/ ProcessSpan
    \/ EndLine
    \/ Finish

SpecScenario == InitScenario /\ [][NextScenario]_vars

-----------------------------------------------------------------------------
(* Names for the step the span loop is about to take.                      *)

AtSpan == pc = "spans" /\ span_idx < Len(CurSpans)
ThisSpan == CurSpans[span_idx + 1]
ThisMatch == HeadingMatch(cfg.heading_regex, ThisSpan.text)
\* The span is a heading match that passes the font gate.
PassesFontGate ==
    cfg.min_font_size = None \/ ThisSpan.size >= cfg.min_font_size[1]
\* The step taken is the processing of the span (not the reading of a block).
SpanProcessed == AtSpan /\ (span_idx' = span_idx + 1 \/ pc' = "raised")
\* The open section, if any, is still the same section after the step.
SameOpenSection ==
    \/ current_section = None /\ current_section' = None
    \/ /\ current_section # None /\ current_section' # None
       /\ current_section'[1].number = current_section[1].number
       /\ current_section'[1].title = current_section[1].title
       /\ current_section'[1].level = current_section[1].level
       /\ current_section'[1].page = current_section[1].page
\* Some TOC title contains num_str.
TocHas(num_str) ==
    \E k \in 1..Len(cfg.titles) :
        \E i \in 1..Len(cfg.titles[k]) :
            /\ i + Len(num_str) - 1 <= Len(cfg.titles[k])
            /\ \A j \in 1..Len(num_str) : cfg.titles[k][i + j - 1] = num_str[j]
\* The number of dot-separated components of num_str.
NumComponents(num_str) == 1 + Cardinality({i \in 1..Len(num_str) : num_str[i] = "."})

-----------------------------------------------------------------------------
(* C2 *)

ScenarioDoc ==
    << [page |-> 0, block |-> TextBlock(<<<<Span(T_Intro, 14, FALSE)>>>>)],
       [page |-> 0, block |-> TextBlock(<<<<Span(T_IntroBody, 10, FALSE)>>>>)],
       [page |-> 0, block |-> TextBlock(<<<<Span(T_Background, 12, FALSE)>>>>)],
       [page |-> 0, block |-> TextBlock(<<<<Span(T_MoreBody, 10, FALSE)>>>>)],
       [page |-> 1, block |-> TextBlock(<<<<Span(T_Next, 14, FALSE)>>>>)] >>

ScenarioSection(number, title, level, page, content) ==
    [number |-> number, title |-> title, level |-> level, page |-> page,
     content |-> content]

\* C2 as stated: for the scenario stream the result is the three sections
\* with contents "Intro body text.\n", "More body.\n" and "".
C2_ScenarioAsStated ==
    (pc = "done" /\ doc = ScenarioDoc) =>
        sections =
          << ScenarioSection(<<"1">>, T_Introduction, 1, 1, T_IntroBody \o <<"\n">>),
             ScenarioSection(T_11, T_BackgroundTitle, 2, 1, T_MoreBody \o <<"\n">>),
             ScenarioSection(<<"2">>, T_NextTitle, 1, 2, <<>>) >>

\* C2 amended: for the scenario stream the result is the three sections
\* 1 "Introduction" (level 1, page 1), 1.1 "Background" (level 2, page 1)
\* and 2 "Next" (level 1, page 2), and each content starts with the newline
\* of the heading's own line: "\nIntro body text.\n", "\nMore body.\n", "\n".
C2_Scenario ==
    (pc = "done" /\ doc = ScenarioDoc) =>
        sections =
          << ScenarioSection(<<"1">>, T_Introduction, 1, 1,
                             <<"\n">> \o T_IntroBody \o <<"\n">>),
             ScenarioSection(T_11, T_BackgroundTitle, 2, 1,
                             <<"\n">> \o T_MoreBody \o <<"\n">>),
             ScenarioSection(<<"2">>, T_NextTitle, 1, 2, <<"\n">>) >>

\* The scenario stream has been read to its end and the list returned.
C2_Witness == pc = "done" /\ doc = ScenarioDoc /\ Len(sections) = 3

-----------------------------------------------------------------------------
(* C3 *)

\* C3: with a start number and no TOC, nothing is opened or accumulated
\* while SUPPRESSED, the gate opens only at a heading match whose number is
\* the start number, and the first section opened (the first of a non-empty
\* output) has the start number.
C3_GateConfigured == cfg.start_header_number # None /\ cfg.titles = <<>>
C3_NothingWhileSuppressed ==
    C3_GateConfigured =>
        /\ ~started => (sections = <<>> /\ current_section = None)
        /\ sections # <<>> => sections[1].number = cfg.start_header_number[1]
        /\ (sections = <<>> /\ current_section # None)
              => current_section[1].number = cfg.start_header_number[1]
C3_GateOpensAtStart ==
    (C3_GateConfigured /\ ~started /\ started') =>
        /\ AtSpan
        /\ ThisMatch.matched
        /\ ThisMatch.num_str = cfg.start_header_number[1]
C3_SuppressedDropsAll == []C3_NothingWhileSuppressed /\ [][C3_GateOpensAtStart]_vars

\* A returned list with a section, from a document whose first fragment was
\* the heading 1 read before the start number 1.1.
C3_Witness ==
    /\ C3_GateConfigured
    /\ pc = "done"
    /\ sections # <<>>
    /\ doc[1].block.lines[1][1].text = T_1Ab

-----------------------------------------------------------------------------
(* C4 *)

\* The step that processes a heading match (font gate passed) inside a
\* hyperlink while a section is open.
C4_LinkStep ==
    /\ AtSpan /\ ThisMatch.matched /\ PassesFontGate /\ ThisSpan.link
    /\ current_section # None
    /\ SpanProcessed

\* C4 as stated: the step leaves the open section's content extended by the
\* fragment's text (stated for the default heading pattern).
C4_LinkTextAppended ==
    [][(cfg.heading_regex = "default" /\ C4_LinkStep) =>
          /\ current_section' # None
          /\ current_section'[1].content = current_section[1].content \o ThisSpan.text]_vars

\* C4 amended: the fragment is skipped; the step leaves the open section,
\* its content included, as it was.
C4_LinkTextDropped ==
    [][C4_LinkStep => current_section' = current_section]_vars

\* The link 1.1 has just been processed on the line after the heading that
\* opened section 1: the content is still the newline of the heading's line.
C4_Witness ==
    /\ pc = "spans" /\ line_idx = 1 /\ span_idx = 1
    /\ CurSpans[1].link /\ CurSpans[1].text = T_11
    /\ cfg.heading_regex = "default" /\ cfg.min_font_size = None
    /\ current_section # None
    /\ current_section[1].number = <<"1">>
    /\ current_section[1].content = <<"\n">>

-----------------------------------------------------------------------------
(* C5 *)

\* C5: processing a heading match inside a hyperlink opens no section, seals
\* none, and changes neither the last accepted numbering nor the gate.
C5_LinkNeverStructural ==
    [][(AtSpan /\ ThisMatch.matched /\ ThisSpan.link /\ SpanProcessed) =>
          /\ sections' = sections
          /\ SameOpenSection
          /\ last_number' = last_number
          /\ started' = started]_vars

\* The link 1.1 has just been processed while section 1 was open and the
\* gate open: as a heading it would have been the accepted successor of 1.
C5_Witness ==
    /\ pc = "spans" /\ span_idx >= 1
    /\ CurSpans[span_idx].link /\ CurSpans[span_idx].text = T_11
    /\ cfg.heading_regex = "default" /\ cfg.titles = <<>> /\ started
    /\ last_number = Some(<<"1">>)
    /\ current_section # None /\ sections = <<>>

-----------------------------------------------------------------------------
(* C6 *)

\* The heading match about to be processed while ACTIVE: not a link, and
\* passing the font gate.
C6_Candidate ==
    AtSpan /\ started /\ ThisMatch.matched /\ PassesFontGate /\ ~ThisSpan.link
C6_Accepts ==
    /\ cfg.titles # <<>> => TocHas(ThisMatch.num_str)
    /\ LET nh == is_next_heading(last_number, ThisMatch.num_str)
       IN  ~nh.raised /\ nh.value
C6_Accepted ==
    /\ sections' = sections \o current_section
    /\ current_section' # None
    /\ current_section'[1].number = ThisMatch.num_str
    /\ current_section'[1].level = NumComponents(ThisMatch.num_str)
    /\ current_section'[1].page = page_num + 1
    /\ current_section'[1].content = <<>>
    /\ last_number' = Some(ThisMatch.num_str)
C6_NotAccepted ==
    /\ sections' = sections
    /\ SameOpenSection
    /\ last_number' = last_number
C6_TocNumbers ==
    cfg.titles # <<>> =>
        /\ \A k \in 1..Len(sections) : TocHas(sections[k].number)
        /\ current_section # None => TocHas(current_section[1].number)

\* C6: while ACTIVE a heading match (no link, font gate passed) opens a new
\* section exactly when its number is in some TOC title (if there is a TOC)
\* and is_next_heading(last accepted numbering, number) holds; the open
\* section is then appended to the output, the new one has that number, the
\* number's count of components as level, the 1-based page and an empty
\* content, and the last accepted numbering is that number.  With a TOC
\* every section's number is inside some TOC title.
C6_AcceptanceRule ==
    /\ [][(C6_Candidate /\ SpanProcessed) =>
             IF C6_Accepts THEN C6_Accepted ELSE C6_NotAccepted]_vars
    /\ []C6_TocNumbers

\* With a TOC, 1.1 has been accepted after 1 on the second page: section 1
\* is in the output and 1.1 is open.
C6_Witness ==
    /\ cfg.titles # <<>> /\ cfg.heading_regex = "default"
    /\ Len(sections) = 1 /\ sections[1].number = <<"1">>
    /\ current_section # None
    /\ current_section[1].number = T_11
    /\ current_section[1].page = 2
    /\ current_section[1].content = <<>>

-----------------------------------------------------------------------------
(* C7 *)

\* C7 as stated: a heading match rejected while a section is open extends
\* the content by exactly the fragment's own text; nothing is opened or
\* sealed and the last accepted numbering stays (stated for the default
\* heading pattern).
C7_RejectedTextOnce ==
    [][(cfg.heading_regex = "default" /\ C6_Candidate /\ ~C6_Accepts
          /\ current_section # None /\ span_idx' = span_idx + 1) =>
          /\ current_section' # None
          /\ current_section'[1].content = current_section[1].content \o ThisSpan.text
          /\ sections' = sections
          /\ last_number' = last_number]_vars

-----------------------------------------------------------------------------
(* C8 *)

\* C8 as stated: the extraction never ends by an exception, and a numbering
\* that is not a dot-separated sequence of integers is never taken for a
\* heading's number.
C8_WellFormed(number) ==
    \A i \in 1..Len(number) :
        /\ number[i] \in Digits \cup {"."}
        /\ number[i] = "." => (1 < i /\ i < Len(number) /\ number[i + 1] # ".")
C8_MalformedNeverRaises ==
    /\ pc # "raised"
    /\ \A k \in 1..Len(sections) : C8_WellFormed(sections[k].number)
    /\ current_section # None => C8_WellFormed(current_section[1].number)

-----------------------------------------------------------------------------
(* nest_sections_by_hierarchy.  A node is the copy of a section with a     *)
(* 'children' list; nodes[i] is the node made of flat[i], and the stack,    *)
(* the root list and the children lists hold references to nodes, modelled *)
(* as indices into nodes.                                                  *)

\* node = dict(section); node['children'] = []
NewNode(section) ==
    [number |-> section.number, title |-> section.title, level |-> section.level,
     page |-> section.page, content |-> section.content, children |-> <<>>]

\* PopWhile with > for >=: a node of the same level is kept as the parent.
RECURSIVE PopWhile_KeepEqual(_, _, _)
PopWhile_KeepEqual(stk, nds, level) ==
    IF stk # <<>> /\ nds[stk[Len(stk)]].level > level
    THEN PopWhile_KeepEqual(SubSeq(stk, 1, Len(stk) - 1), nds, level)
    ELSE stk

\* PopWhile with if for while: at most one node is popped.
PopWhile_Once(stk, nds, level) ==
    IF stk # <<>> /\ nds[stk[Len(stk)]].level >= level
    THEN SubSeq(stk, 1, Len(stk) - 1)
    ELSE stk

\* while stack and stack[-1]['level'] >= node['level']: stack.pop()
RECURSIVE PopWhile(_, _, _)
PopWhile(stk, nds, level) ==
    IF stk # <<>> /\ nds[stk[Len(stk)]].level >= level
    THEN PopWhile(SubSeq(stk, 1, Len(stk) - 1), nds, level)
    ELSE stk

\* PlaceNode that also lists a child among the roots.
PlaceNode_AlwaysRoot(stk, nds, rt, i) ==
    IF stk # <<>>
    THEN [nodes |-> [nds EXCEPT ![stk[Len(stk)]].children = Append(@, i)],
          root |-> Append(rt, i)]
    ELSE [nodes |-> nds, root |-> Append(rt, i)]

\* if stack: stack[-1]['children'].append(node) else: root.append(node)
PlaceNode(stk, nds, rt, i) ==
    IF stk # <<>>
    THEN [nodes |-> [nds EXCEPT ![stk[Len(stk)]].children = Append(@, i)],
          root |-> rt]
    ELSE [nodes |-> nds, root |-> Append(rt, i)]

\* One iteration of the loop over sections.
NestSection ==
    /\ pc = "nest"
    /\ nidx < Len(flat)
    /\ LET i == nidx + 1
           node == NewNode(flat[i])
           withNode == Append(nodes, node)
           popped == PopWhile(stack, withNode, node.level)
           placed == PlaceNode(popped, withNode, root, i)
       IN  /\ nodes' = placed.nodes
           /\ root' = placed.root
           /\ stack' = Append(popped, i)
           /\ nidx' = i
    /\ UNCHANGED <<flat, cfg, doc, page_num, line_idx, span_idx, pc, sections,
                   current_section, last_number, started, succVars>>

\* return root (also the early return [] of an empty list).
NestReturn ==
    /\ pc = "nest"
    /\ nidx = Len(flat)
    /\ pc' = "nested"
    /\ UNCHANGED <<nestVars, cfg, doc, page_num, line_idx, span_idx, sections,
                   current_section, last_number, started, succVars>>

\* The flat lists of at most MaxFlat sections with levels in 1..MaxNestLevel;
\* the number of a section is its position, so that no two are equal.
FlatOfLevels(levels) ==
    [i \in 1..Len(levels) |->
        [number |-> StrOfNat(i), title |-> <<>>, level |-> levels[i],
         page |-> 1, content |-> <<>>]]
FlatLists ==
    {FlatOfLevels(l) : l \in UNION {[1..n -> 1..MaxNestLevel] : n \in 0..MaxFlat}}

InitNest ==
    /\ flat \in FlatLists
    /\ nidx = 0 /\ stack = <<>> /\ root = <<>> /\ nodes = <<>>
    /\ cfg = None /\ doc = <<>> /\ page_num = 0 /\ line_idx = 0 /\ span_idx = 0
    /\ pc = "nest" /\ sections = <<>> /\ current_section = None
    /\ last_number = None /\ started = FALSE
    /\ IdleSucc

NextNest == NestSection \/ NestReturn

SpecNest == InitNest /\ [][NextNest]_vars

\* The forest flattened in pre-order: a node, then its children in order.
RECURSIVE PreOrder(_)
PreOrder(list) ==
    IF list = <<>> THEN <<>>
    ELSE <<Head(list)>> \o PreOrder(nodes[Head(list)].children) \o PreOrder(Tail(list))

\* The section a node was copied from: the node without its 'children'.
SectionOf(node) ==
    [number |-> node.number, title |-> node.title, level |-> node.level,
     page |-> node.page, content |-> node.content]

\* The nodes nested under node i, at any depth.
Descendants(i) == PreOrder(nodes[i].children)

-----------------------------------------------------------------------------
(* C9 *)

\* C9: when nest_sections_by_hierarchy returns, the pre-order traversal of
\* the forest visits every node once, in the order of the flat list, and
\* the nodes carry the sections of the flat list: none lost, none
\* duplicated, none reordered.
C9_PreOrderIsFlat ==
    pc = "nested" =>
        LET order == PreOrder(root) IN
        /\ Len(order) = Len(flat)
        /\ \A k \in 1..Len(order) :
              order[k] = k /\ SectionOf(nodes[order[k]]) = flat[k]

\* A returned forest with a root after a nested chain: levels 1, 2, 3, 2, 1.
C9_Witness ==
    /\ pc = "nested"
    /\ Len(flat) = 5
    /\ [k \in 1..5 |-> flat[k].level] = <<1, 2, 3, 2, 1>>
    /\ root = <<1, 5>>
    /\ nodes[1].children = <<2, 4>>

-----------------------------------------------------------------------------
(* C10 *)

\* C10 as stated: every node's children all have the same level, the
\* smallest level greater than the parent's that occurs among the nodes
\* nested under it.
C10_MinDeeper(i) ==
    LET below == {nodes[d].level : d \in {Descendants(i)[k] : k \in 1..Len(Descendants(i))}}
        deeper == {l \in below : l > nodes[i].level}
    IN  CHOOSE m \in deeper : \A l \in deeper : m <= l
C10_ChildrenShareMinimalLevel ==
    pc = "nested" =>
        \A i \in 1..Len(nodes) :
            \A k \in 1..Len(nodes[i].children) :
                nodes[nodes[i].children[k]].level = C10_MinDeeper(i)

\* C10 amended: every child's level is strictly greater than its parent's,
\* and the levels of a node's children never increase from one child to the
\* next (the last child has the minimal level); they need not be equal.
C10_ChildrenDeeperNonIncreasing ==
    pc = "nested" =>
        \A i \in 1..Len(nodes) :
            LET ch == nodes[i].children IN
            /\ \A k \in 1..Len(ch) : nodes[ch[k]].level > nodes[i].level
            /\ \A k \in 1..(Len(ch) - 1) : nodes[ch[k + 1]].level <= nodes[ch[k]].level

\* A node with two children of different levels: flat levels 1, 3, 2.
C10_Witness ==
    /\ pc = "nested"
    /\ Len(flat) = 3
    /\ [k \in 1..3 |-> flat[k].level] = <<1, 3, 2>>
    /\ nodes[1].children = <<2, 3>>

-----------------------------------------------------------------------------
(* C11 *)

\* The children of node i, as a set.
C11_ChildrenOf(i) == {nodes[i].children[k] : k \in 1..Len(nodes[i].children)}

\* C11: after every iteration of the loop of nest_sections_by_hierarchy the
\* levels of the stack strictly increase from bottom to top, the bottom of
\* the stack is a root, every element above the bottom is a child (the last
\* one) of the element directly below it, and the top is the node just
\* pushed; every child in the forest has a level strictly greater than its
\* parent's.
C11_StackIsAncestorChain ==
    pc \in {"nest", "nested"} =>
        /\ \A k \in 1..(Len(stack) - 1) :
              /\ nodes[stack[k]].level < nodes[stack[k + 1]].level
              /\ nodes[stack[k]].children # <<>>
              /\ nodes[stack[k]].children[Len(nodes[stack[k]].children)] = stack[k + 1]
        /\ nidx > 0 =>
              /\ stack # <<>>
              /\ stack[Len(stack)] = nidx
              /\ root # <<>>
              /\ root[Len(root)] = stack[1]
        /\ \A i \in 1..Len(nodes) :
              \A c \in C11_ChildrenOf(i) : nodes[c].level > nodes[i].level

\* The loop has popped two nodes and pushed the fifth under the first: flat
\* levels 1, 2, 3, 2, 3 leave the stack 1, 4, 5.
C11_Witness ==
    /\ pc = "nest"
    /\ nidx = 5
    /\ [k \in 1..5 |-> flat[k].level] = <<1, 2, 3, 2, 3>>
    /\ stack = <<1, 4, 5>>

-----------------------------------------------------------------------------
(* C12 *)

\* C12: the output list is append-only and a sealed section is immutable:
\* every step of the extraction (a fragment, a line end, an accepted or
\* rejected heading, the end of the stream) leaves the sections already in
\* the list, with all their fields, as a prefix of the list.
C12_SealedPrefix ==
    /\ Len(sections') >= Len(sections)
    /\ SubSeq(sections', 1, Len(sections)) = sections
C12_SealedImmutable == [][C12_SealedPrefix]_vars

\* Section 1 is sealed, and after it the open section 1.1 has taken a
\* fragment and a line end.
C12_Witness ==
    /\ pc = "blocks"
    /\ Len(sections) = 1 /\ sections[1].number = <<"1">>
    /\ current_section # None
    /\ current_section[1].number = T_11
    /\ current_section[1].content = T_xy \o <<"\n">>

-----------------------------------------------------------------------------
(* C13 *)

\* The fragment about to be processed matches the heading pattern with the
\* start number.
C13_MatchesStart ==
    /\ AtSpan /\ ThisMatch.matched
    /\ ThisMatch.num_str = cfg.start_header_number[1]

-----------------------------------------------------------------------------
(* C14 *)

C14_From11 == answer # None /\ prev = Some(T_11)

-----------------------------------------------------------------------------
(* SpecRegion: the extraction over documents of at most MaxRegionBlocks     *)
(* blocks of one fragment, the blocks and the fragments placed on the page, *)
(* with and without a header band and a footer band.  The bounding box of a *)
(* fragment lies inside the bounding box of its block.                      *)

HeaderHeight == 20      \* header_height, when set
FooterHeight == 10      \* footer_height, when set
RegionYs == {5, 15, 25, 95}     \* the y coordinates of the boxes

SpanAt(text, y0, y1) ==
    [text |-> text, size |-> 12, link |-> FALSE, bbox_y0 |-> y0, bbox_y1 |-> y1]

BlockAt(y0, y1, lines) == [type |-> 0, bbox_y0 |-> y0, bbox_y1 |-> y1, lines |-> lines]

RegionBlocks ==
    { BlockAt(by0, by1, <<<<SpanAt(t, fy0, fy1)>>>>) :
        by0 \in RegionYs, by1 \in RegionYs, fy0 \in RegionYs, fy1 \in RegionYs,
        t \in {T_1Ab, T_xy} }

\* A block as the document layer produces it: the boxes are not empty and
\* the block's box contains its fragment's.
RegionBlockOk(b) ==
    /\ b.bbox_y0 < b.bbox_y1
    /\ \A l \in 1..Len(b.lines) : \A k \in 1..Len(b.lines[l]) :
          /\ b.lines[l][k].bbox_y0 < b.lines[l][k].bbox_y1
          /\ b.bbox_y0 <= b.lines[l][k].bbox_y0
          /\ b.lines[l][k].bbox_y1 <= b.bbox_y1

RegionConfig(header, footer) ==
    [Config("default", None, None, <<>>) EXCEPT
        !.header_height = header, !.footer_height = footer]

RegionConfigs ==
    { RegionConfig(h, f) : h \in {None, Some(HeaderHeight)},
                           f \in {None, Some(FooterHeight)} }

InitRegion == \E c \in RegionConfigs : InitExtract(c)

NextRegion ==
    \/ /\ pc = "blocks"
       /\ Len(doc) < MaxRegionBlocks
       /\ \E b \in RegionBlocks : RegionBlockOk(b) /\ ReadBlock(b)
    \/ NextPage
    \/ ProcessSpan
    \/ EndLine
    \/ Finish

SpecRegion == InitRegion /\ [][NextRegion]_vars

-----------------------------------------------------------------------------
(* C15 *)

\* Some fragment of block b lies fully within [0, header_height) in y.
C15_HasHeaderFragment(b) ==
    \E l \in 1..Len(b.lines) : \E k \in 1..Len(b.lines[l]) :
        /\ 0 <= b.lines[l][k].bbox_y0
        /\ b.lines[l][k].bbox_y1 < cfg.header_height[1]

\* The step reads a block.
C15_Reads == pc = "blocks" /\ Len(doc') = Len(doc) + 1

\* With a header band, the lines of a block holding a fragment of the band
\* are never scanned.
C15_HeaderNeverScanned ==
    (cfg.header_height # None /\ pc = "spans") => ~C15_HasHeaderFragment(CurBlock)
\* Reading such a block changes nothing of the accumulator and goes on to
\* the next block.
C15_HeaderBlockDropped ==
    IF cfg.header_height # None /\ C15_Reads
    THEN C15_HasHeaderFragment(doc'[Len(doc')].block) =>
            /\ pc' = "blocks"
            /\ UNCHANGED <<sections, current_section, last_number, started>>
    ELSE TRUE
\* Without header and footer bands, a text block with lines is scanned
\* wherever it is on the page.
C15_NoBandNoDrop ==
    (/\ cfg.header_height = None /\ cfg.footer_height = None
     /\ cfg.remove_header_footer_if_contains = None
     /\ C15_Reads
     /\ doc'[Len(doc')].block.type = 0
     /\ doc'[Len(doc')].block.lines # <<>>)
        => (pc' = "spans" /\ line_idx' = 0 /\ span_idx' = 0)

\* C15: when header_height is set, a fragment whose bounding box lies fully
\* within [0, header_height) in y, inside a block that contains it, is never
\* processed: its block is dropped when read, so the fragment adds nothing
\* to a title or a content and opens no section; when header_height and
\* footer_height are both unset, no block is dropped because of its
\* position.
C15_RegionFilter ==
    /\ []C15_HeaderNeverScanned
    /\ [][C15_HeaderBlockDropped]_vars
    /\ [][C15_NoBandNoDrop]_vars

\* With a header band, the heading "1 Ab" was read twice: first fully
\* inside the band, in a block reaching below the band, then lower on the
\* page.  Only the second opened a section.
C15_Witness ==
    /\ cfg.header_height # None
    /\ pc = "blocks"
    /\ Len(doc) = 2
    /\ doc[1].block.lines[1][1].text = T_1Ab
    /\ C15_HasHeaderFragment(doc[1].block)
    /\ doc[1].block.bbox_y1 > cfg.header_height[1]
    /\ doc[2].block.lines[1][1].text = T_1Ab
    /\ sections = <<>>
    /\ current_section # None
    /\ current_section[1].content = <<"\n">>

-----------------------------------------------------------------------------
(* C16 *)

\* The sections opened so far, in order: the output list and the open
\* section, which is in the list once the function has returned.
C16_Opened == IF pc = "done" THEN sections ELSE sections \o current_section
C16_Numbers(list) == [k \in 1..Len(list) |-> list[k].number]

\* The step accepts a heading: it processes a heading match that passes the
\* font gate, is not in a hyperlink, finds the gate open or opens it, and
\* passes the acceptance rule.
C16_AcceptStep ==
    /\ AtSpan /\ ThisMatch.matched /\ PassesFontGate /\ ~ThisSpan.link
    /\ IF started THEN TRUE ELSE ThisMatch.num_str = cfg.start_header_number[1]
    /\ C6_Accepts
    /\ SpanProcessed

C16_OnePerAcceptedHeading ==
    /\ C16_Numbers(C16_Opened') =
           IF C16_AcceptStep
           THEN Append(C16_Numbers(C16_Opened), ThisMatch.num_str)
           ELSE C16_Numbers(C16_Opened)
    /\ (pc # "done" /\ pc' = "done") => sections' = sections \o current_section

C16_EmptyStream ==
    doc = <<>> => (pc # "raised" /\ sections = <<>> /\ current_section = None)

\* C16: the list of the sections opened (the output list and the open
\* section) grows by one section, at its end, at each accepted heading and
\* at no other step; at the end of the stream the open section, if any, is
\* appended, so that the returned list holds one section per accepted
\* heading, in acceptance order, the last one included; a stream without
\* fragments returns the empty list without error.
C16_EndOfStreamSeals ==
    /\ [][C16_OnePerAcceptedHeading]_vars
    /\ []C16_EmptyStream

\* The function has returned two sections; the second, 1.1, was the open
\* section at the end of the stream.
C16_Witness ==
    /\ pc = "done"
    /\ cfg.heading_regex = "default"
    /\ Len(sections) = 2
    /\ sections[2].number = T_11
    /\ current_section = Some(sections[2])

-----------------------------------------------------------------------------
(* C17 *)

\* C17: with the default heading pattern, at every step the last accepted
\* numbering is the number of the open section (both absent together), and
\* in the list of the sections opened so far, hence in the returned list,
\* each section's number is the successor of the one before it by
\* is_next_heading; no two consecutive sections have the same number.
C17_NumberingChain ==
    cfg.heading_regex = "default" =>
        /\ (last_number = None) <=> (current_section = None)
        /\ current_section # None => last_number = Some(current_section[1].number)
        /\ \A i \in 1..(Len(C16_Opened) - 1) :
              /\ is_next_heading(Some(C16_Opened[i].number), C16_Opened[i + 1].number)
                    = [raised |-> FALSE, value |-> TRUE]
              /\ C16_Opened[i].number # C16_Opened[i + 1].number

\* The function has returned the chain 1, 1.1, 2, after a TOC-less run with
\* the default pattern.
C17_Witness ==
    /\ pc = "done"
    /\ cfg.heading_regex = "default"
    /\ C16_Numbers(sections) = << <<"1">>, T_11, <<"2">> >>
    /\ last_number = Some(<<"2">>)

-----------------------------------------------------------------------------
(* SpecCompose: the main program with --nested.  The extraction with the    *)
(* default arguments and no TOC runs over every document of at most         *)
(* MaxComposeLines one-line blocks, each line one numbered heading, and the  *)
(* list it returns is passed to nest_sections_by_hierarchy.                  *)

ComposeSpans ==
    { Span(T_1, 14, FALSE), Span(T_11, 14, FALSE), Span(T_111, 14, FALSE),
      Span(T_112, 14, FALSE), Span(T_12, 14, FALSE), Span(T_2, 14, FALSE) }

ComposeBlocks == {TextBlock(<<<<sp>>>>) : sp \in ComposeSpans}

InitCompose == InitExtract(Config("default", None, None, <<>>))

\* output_data = nest_sections_by_hierarchy(sections): the call.
NestCall ==
    /\ pc = "done"
    /\ flat' = sections
    /\ nidx' = 0 /\ stack' = <<>> /\ root' = <<>> /\ nodes' = <<>>
    /\ pc' = "nest"
    /\ UNCHANGED <<cfg, doc, page_num, line_idx, span_idx, sections,
                   current_section, last_number, started, succVars>>

NextCompose ==
    \/ /\ pc = "blocks"
       /\ LinesRead(doc) < MaxComposeLines
       /\ \E b \in ComposeBlocks : ReadBlock(b)
    \/ ProcessSpan
    \/ EndLine
    \/ Finish
    \/ NestCall
    \/ NestSection
    \/ NestReturn

SpecCompose == InitCompose /\ [][NextCompose]_vars

-----------------------------------------------------------------------------
(* C18 *)

\* The components of the number of node i, and those of its parent's
\* number (all but the last).
C18_Nums(i) == parse_numbering(nodes[i].number).nums
C18_ParentNums(i) == Slice(C18_Nums(i), 1, Len(C18_Nums(i)) - 1)
C18_Roots == {root[k] : k \in 1..Len(root)}

\* C18: in the forest built from a list returned by the extraction, every
\* child's level is its parent's level + 1 and the child's number is the
\* parent's number followed by one component; a node whose parent numbering
\* is the number of no section of the list is a root.
C18_ChildrenOneLevelBelow ==
    /\ pc \in {"nest", "nested"} =>
          \A i \in 1..Len(nodes) : \A c \in C11_ChildrenOf(i) :
              /\ nodes[c].level = nodes[i].level + 1
              /\ C18_ParentNums(c) = C18_Nums(i)
    /\ pc = "nested" =>
          \A i \in 1..Len(nodes) :
              (\A j \in 1..Len(nodes) : C18_Nums(j) # C18_ParentNums(i))
                  => i \in C18_Roots

\* The forest of the list 1.1, 1.1.1, 1.2, 2: 1.1 and 1.2, whose parent 1
\* was never emitted, are roots like 2, and 1.1.1 is the child of 1.1.
C18_Witness ==
    /\ pc = "nested"
    /\ C16_Numbers(flat) = <<T_11, T_111, T_12, T_2>>
    /\ root = <<1, 3, 4>>
    /\ nodes[1].children = <<2>>

-----------------------------------------------------------------------------
(* C19 *)

\* The title and text the stitching gives the heading at span (li, si) of
\* the current block, and what it gives from the spans of its line alone.
C19_StitchAt(li, si) ==
    LET sp == CurLines[li + 1][si + 1]
    IN  Stitch(CurLines, li, si, HeadingMatch(cfg.heading_regex, sp.text).title, sp.text)
C19_StitchSameLineAt(li, si) ==
    LET sp == CurLines[li + 1][si + 1]
    IN  Stitch(<<CurLines[li + 1]>>, 0, si,
               HeadingMatch(cfg.heading_regex, sp.text).title, sp.text)

\* The open section is the one the heading at span (li, si) opens.
C19_OpenedAt(li, si) ==
    LET m == HeadingMatch(cfg.heading_regex, CurLines[li + 1][si + 1].text)
    IN  /\ m.matched
        /\ current_section[1].number = m.num_str
        /\ current_section[1].title = NormalizeTitle(C19_StitchAt(li, si).title)

\* The number of line ends in the open section's content.
C19_LineEnds ==
    Cardinality({i \in 1..Len(current_section[1].content) :
                    current_section[1].content[i] = "\n"})

\* The heading about to be processed is accepted, with a title stitched
\* from the fragments that follow it.
C19_StitchedAccept ==
    /\ AtSpan /\ ThisMatch.matched /\ PassesFontGate /\ ~ThisSpan.link
    /\ IF started THEN TRUE ELSE ThisMatch.num_str = cfg.start_header_number[1]
    /\ C6_Accepts
    /\ C19_StitchAt(line_idx, span_idx).title # ThisMatch.title

\* The fragment about to be processed was stitched into the title of the
\* open section: the section was opened earlier on this line (no line end
\* in its content yet), or on the line before (one line end) by a heading
\* whose title took the texts of this line.
C19_SameLineTurn ==
    /\ AtSpan /\ ThisSpan.text # <<>>
    /\ current_section # None
    /\ C19_LineEnds = 0
C19_NextLineTurn ==
    /\ AtSpan /\ ThisSpan.text # <<>>
    /\ current_section # None
    /\ C19_LineEnds = 1
    /\ line_idx >= 1
    /\ \E si \in 0..(Len(CurLines[line_idx]) - 1) :
          /\ C19_OpenedAt(line_idx - 1, si)
          /\ C19_StitchAt(line_idx - 1, si).title
                # C19_StitchSameLineAt(line_idx - 1, si).title

\* The fragment is handled as any fragment in its own turn: ordinary text
\* goes to the content, a heading match in a hyperlink is skipped, and a
\* heading candidate is accepted or folded into the content.
C19_OwnTurn ==
    /\ pc' = "spans" /\ line_idx' = line_idx /\ span_idx' = span_idx + 1
    /\ IF ThisMatch.matched /\ PassesFontGate
       THEN IF ThisSpan.link
            THEN UNCHANGED <<sections, current_section, last_number>>
            ELSE IF C6_Accepts THEN C6_Accepted
            ELSE /\ C6_NotAccepted
                 /\ current_section'[1].content =
                       current_section[1].content
                          \o C19_StitchAt(line_idx, span_idx).text
       ELSE /\ sections' = sections
            /\ SameOpenSection
            /\ current_section'[1].content = current_section[1].content \o ThisSpan.text

C19_ScanResumes ==
    C19_StitchedAccept =>
        /\ pc' = "spans" /\ line_idx' = line_idx /\ span_idx' = span_idx + 1
        /\ doc' = doc
        /\ current_section'[1].title = NormalizeTitle(C19_StitchAt(line_idx, span_idx).title)
        /\ current_section'[1].content = <<>>
C19_StitchedHandled ==
    /\ (C19_SameLineTurn /\ pc' # "raised") =>
          /\ \E si \in 0..(span_idx - 1) : C19_OpenedAt(line_idx, si)
          /\ C19_OwnTurn
    /\ (C19_NextLineTurn /\ pc' # "raised") => C19_OwnTurn

\* C19: the title stitching consumes no fragment.  After a heading is
\* accepted with a title stitched from the following spans of its line, or
\* from the spans of the next line of the block, the scan goes on at the
\* next span of the same line and then at the next line; each stitched
\* fragment is handled in its own turn, its text appended to the content of
\* the new section or itself evaluated as a heading candidate.
C19_StitchingConsumesNothing ==
    /\ [][C19_ScanResumes]_vars
    /\ [][C19_StitchedHandled]_vars

\* The line "1 Ab", "xy": the heading opened section 1 with the title
\* "Abxy", and "xy" has then been appended to its content.
C19_Witness ==
    /\ pc = "spans" /\ line_idx = 0 /\ span_idx = 2
    /\ cfg.heading_regex = "default"
    /\ CurSpans[1].text = T_1Ab /\ CurSpans[2].text = T_xy
    /\ current_section # None
    /\ current_section[1].title = <<"A", "b", "x", "y">>
    /\ current_section[1].content = T_xy

=============================================================================
